---------------------------- MODULE Spec2Model ----------------------------
(***************************************************************************)
(* Model of the generative-AI service client (services/geminiService:      *)
(* getAIClient, generateText, generateImage, streamText, analyzeImage),    *)
(* of modelManager.streamInfer and of the streaming loop of                *)
(* AIChatInterface.handleUserMessage that consumes it.                     *)
(*                                                                         *)
(* Text is a sequence of one-character strings, so that concatenation and  *)
(* template literals are computed, not assumed.  An async function runs    *)
(* synchronously up to its first await: each action is one such run.  The  *)
(* hosted service and the FileReader are the environment: their answers    *)
(* are put in net[c] and the awaiting code resumes in a later action.      *)
(***************************************************************************)
EXTENDS Integers, Sequences, FiniteSets, TLC

(***************************************************************************)
(* Bounds of the model.                                                    *)
(***************************************************************************)
\* chunks the transport delivers on one stream before it must end or fail
MaxChunks == 3
\* content parts of one candidate of an image response
MaxParts == 3
\* bytes of an image file handed to analyzeImage
MaxFileLen == 2
\* next() calls a consumer makes on a generator that has already ended
MaxExtraPulls == 1

\* the call slots of the model: a call of the client occupies one slot
Calls == {"c1", "c2"}
\* the slot that is used when a single call is followed from start to end
Solo == {"c1"}

(***************************************************************************)
(* String literals of the source.                                          *)
(***************************************************************************)
\* the value JavaScript calls undefined; it is no text (no one-character element)
Undefined == <<"undefined">>
\* String(undefined), what a template literal prints for undefined
UNDEFINED_STR == <<"u", "n", "d", "e", "f", "i", "n", "e", "d">>
DUMMY_KEY_FOR_DEMO == <<"D", "U", "M", "M", "Y", "_", "K", "E", "Y", "_", "F", "O", "R", "_", "D", "E", "M", "O">>
NO_RESPONSE == <<"N", "o", " ", "r", "e", "s", "p", "o", "n", "s", "e", " ", "g", "e", "n", "e", "r", "a", "t", "e", "d", ".">>
NO_ANALYSIS == <<"N", "o", " ", "a", "n", "a", "l", "y", "s", "i", "s", " ", "g", "e", "n", "e", "r", "a", "t", "e", "d", ".">>
ANALYZE_FAILED == <<"F", "a", "i", "l", "e", "d", " ", "t", "o", " ", "a", "n", "a", "l", "y", "z", "e", " ", "i", "m", "a", "g", "e", ".">>
NO_IMAGE_DATA == <<"N", "o", " ", "i", "m", "a", "g", "e", " ", "d", "a", "t", "a", " ", "r", "e", "t", "u", "r", "n", "e", "d">>
STREAM_SENTINEL == <<" ", "[", "E", "r", "r", "o", "r", " ", "g", "e", "n", "e", "r", "a", "t", "i", "n", "g", " ", "s", "t", "r", "e", "a", "m", "]">>
DATA_PREFIX == <<"d", "a", "t", "a", ":">>
BASE64_MARK == <<";", "b", "a", "s", "e", "6", "4", ",">>
IMAGE_PNG == <<"i", "m", "a", "g", "e", "/", "p", "n", "g">>
IMAGE_JPEG == <<"i", "m", "a", "g", "e", "/", "j", "p", "e", "g">>
OCTET_STREAM == <<"a", "p", "p", "l", "i", "c", "a", "t", "i", "o", "n", "/", "o", "c", "t", "e", "t", "-", "s", "t", "r", "e", "a", "m">>
DEFAULT_MODEL == "gemini-3-flash-preview"
IMAGE_MODEL == "gemini-2.5-flash-image"

(***************************************************************************)
(* JavaScript value helpers.                                               *)
(***************************************************************************)
\* truthiness of an optional string: undefined and "" are falsy
Truthy(s) == s # Undefined /\ s # <<>>

\* a || b on optional strings
OrElse(a, b) == IF Truthy(a) THEN a ELSE b

\* ${x} in a template literal
ToStr(x) == IF x = Undefined THEN UNDEFINED_STR ELSE x

\* modelId.includes('gemini-3')
IncludesGemini3(m) == m \in {"gemini-3-flash-preview", "gemini-3-pro-preview"}

(***************************************************************************)
(* Errors.  An error is an object: id is its identity.                     *)
(***************************************************************************)
NoError == [id |-> "none", message |-> <<>>]
\* what the transport or the service can throw
TransportErrors ==
    { [id |-> "e_network", message |-> <<"n", "e", "t">>],
      [id |-> "e_quota", message |-> <<"4", "2", "9">>] }
\* new Error("No image data returned")
NoImageError == [id |-> "new_Error", message |-> NO_IMAGE_DATA]
\* the ProgressEvent a FileReader rejects with
ReadErrorEvent == [id |-> "progress_event", message |-> <<>>]


(***************************************************************************)
(* Input domains.                                                          *)
(***************************************************************************)
\* process.env.API_KEY: unset, the empty string, or a key
EnvKeys == {Undefined, <<>>, <<"k", "1">>}
\* the modelId argument of generateText and streamText
ModelIds == {DEFAULT_MODEL, "gemini-2.5-flash"}
\* response.text / chunk.text as the service can return it
Texts == {Undefined, <<>>, <<"h", "i">>, <<"!">>}

(***************************************************************************)
(* State.                                                                  *)
(*   API_KEY      process.env.API_KEY                                      *)
(*   fn[c]        the client function call c runs ("idle": slot free)      *)
(*   pc[c]        where call c is suspended                                *)
(*   modelId[c]   its modelId argument                                     *)
(*   imageFile[c] analyzeImage's File: [type, bytes]                       *)
(*   consumer[c]  who pulls a streamText generator: "direct" or "chat"     *)
(*   requests[c]  the requests call c has issued to the service, in order  *)
(*   net[c]       the outcome of the promise call c awaits or awaited last *)
(*                (kind "none": still pending)                             *)
(*   result[c]    the outcome of the call's promise / generator            *)
(*   warnings[c]  console.warn calls made by call c                        *)
(*   errorLog[c]  errors call c gave to console.error, in order            *)
(*   arrived[c]   chunk texts the transport delivered on c's stream        *)
(*   fault[c]     the error the transport raised on call c, or NoError     *)
(*   yielded[c]   fragments the streamText generator yielded, in order     *)
(*   received[c]  fragments the consumer took from next(), in order        *)
(*   extraPulls[c] next() calls made after the generator had ended         *)
(*   fullStreamContent, messages: handleUserMessage's accumulator and the  *)
(*                chat's message list                                      *)
(***************************************************************************)
VARIABLES API_KEY, fn, pc, modelId, imageFile, consumer, requests, net,
          result, warnings, errorLog, arrived, fault, yielded, received,
          extraPulls, fullStreamContent, messages

(***************************************************************************)
(* State of the chat interface (AIChatInterface) and of the provider.      *)
(*   maxMessageHistory, currentOutputModality: the prop and the selected   *)
(*                output modality                                          *)
(*   initialMessages: the prop of that name, the pre-loaded history        *)
(*   processingInputRef, isTyping: the ref and the state of that name      *)
(*   hum          where handleUserMessage is suspended ("idle": no call)   *)
(*   input        content and type of the input it is processing, and how  *)
(*                many messages had been appended when it was accepted     *)
(*   streamedMessageId: handleUserMessage's local of that name             *)
(*   pending      user messages whose addMessage awaits the sentiment      *)
(*                inference                                                *)
(*   appended     ids of the messages appended to the list, in order       *)
(*   sent, notified: ids given to onSendMessage / onReceiveMessage         *)
(*   accepted     ids of the user messages built by accepted inputs        *)
(*   ignoredLog   the 'ignoring new input' events, each written as the     *)
(*                type of the input it reports                             *)
(*   committed    the last render shows the current state                  *)
(*   effectsDue   a render is due whose effects run whatever it shows: the *)
(*                mount, or a new userProfile                              *)
(*   rendered     what the last render saw: [len, isTyping, tasks]         *)
(*   tasks        the provider's task list; tasksSeen: the list in the     *)
(*                closure of the subscribed event callback                 *)
(*   activeAgentTasks: ids of the chat's active task list                  *)
(*   timers       ids of the tasks whose completion timeout is running     *)
(***************************************************************************)
VARIABLES maxMessageHistory, initialMessages, currentOutputModality,
          processingInputRef, isTyping, hum, input, streamedMessageId, pending, appended, sent, notified,
          accepted, ignoredLog, committed, effectsDue, rendered, tasks,
          tasksSeen, activeAgentTasks, timers

\* the chat's variables that the client's calls never touch
chatVars == <<maxMessageHistory, initialMessages, currentOutputModality,
              processingInputRef, isTyping, hum, input, streamedMessageId, pending, appended, sent, notified,
              accepted, ignoredLog, committed, effectsDue, rendered, tasks,
              tasksSeen, activeAgentTasks, timers>>

\* the variables of the client's calls
callVars == <<API_KEY, fn, pc, modelId, imageFile, consumer, requests, net,
              result, warnings, errorLog, arrived, fault, yielded, received,
              extraPulls>>

vars == <<API_KEY, fn, pc, modelId, imageFile, consumer, requests, net,
          result, warnings, errorLog, arrived, fault, yielded, received,
          extraPulls, fullStreamContent, messages, chatVars>>

NoCandidates == [defined |-> FALSE, items |-> <<>>]
NoReply == [kind |-> "none", text |-> Undefined, candidates |-> NoCandidates, error |-> NoError]
NoFile == [type |-> <<>>, bytes |-> <<>>]
Pending == [state |-> "pending", value |-> Undefined, error |-> NoError]
Fulfilled(v) == [state |-> "fulfilled", value |-> v, error |-> NoError]
Rejected(e) == [state |-> "rejected", value |-> Undefined, error |-> e]

\* maxMessageHistory = 500, the default of the prop
DefaultMaxMessageHistory == 500

\* a message id: generateUUID() and Date.now() are taken to give a new
\* value each time, so an id is written as the place that made it and the
\* number of the input (or of the list position) it was made for
NoId == <<"none", 0>>

NoInput == [type |-> "none", content |-> <<>>, start |-> 0]

\* the last render shows what the handlers and the effects read of the
\* state: a change of anything else (the content of a message) makes a render
\* whose effects do nothing, and that render is left out
Shown ==
    /\ Len(messages) = rendered.len
    /\ Len(messages) <= maxMessageHistory
    /\ isTyping = rendered.isTyping
    /\ tasks = rendered.tasks

\* the chat and the provider after mounting: useState(initialMessages), the
\* first render is committed and its effects are due
Mounted ==
    /\ messages = initialMessages
    /\ processingInputRef = FALSE
    /\ isTyping = FALSE
    /\ hum = "idle"
    /\ input = NoInput
    /\ streamedMessageId = NoId
    /\ pending = {}
    /\ appended = [i \in DOMAIN initialMessages |-> initialMessages[i].id]
    /\ sent = <<>>
    /\ notified = <<>>
    /\ accepted = <<>>
    /\ ignoredLog = <<>>
    /\ committed = TRUE
    /\ effectsDue = TRUE
    /\ rendered = [len |-> Len(initialMessages), isTyping |-> FALSE, tasks |-> <<>>]
    /\ tasks = <<>>
    /\ tasksSeen = <<>>
    /\ activeAgentTasks = <<>>
    /\ timers = {}

\* no call of the client has been made
AllIdle ==
    /\ fn = [c \in Calls |-> "idle"]
    /\ pc = [c \in Calls |-> "idle"]
    /\ modelId = [c \in Calls |-> DEFAULT_MODEL]
    /\ imageFile = [c \in Calls |-> NoFile]
    /\ consumer = [c \in Calls |-> "none"]
    /\ requests = [c \in Calls |-> <<>>]
    /\ net = [c \in Calls |-> NoReply]
    /\ result = [c \in Calls |-> Pending]
    /\ warnings = [c \in Calls |-> 0]
    /\ errorLog = [c \in Calls |-> <<>>]
    /\ arrived = [c \in Calls |-> <<>>]
    /\ fault = [c \in Calls |-> NoError]
    /\ yielded = [c \in Calls |-> <<>>]
    /\ received = [c \in Calls |-> <<>>]
    /\ extraPulls = [c \in Calls |-> 0]
    /\ fullStreamContent = <<>>

Init ==
    /\ initialMessages = <<>>
    /\ Mounted
    /\ maxMessageHistory = DefaultMaxMessageHistory
    /\ currentOutputModality = "text"
    /\ API_KEY \in EnvKeys
    /\ AllIdle

\* a variant of getAIClient: the key is passed on without the placeholder
getAIClient_noPlaceholder(apiKey) == [apiKey |-> apiKey, warn |-> ~Truthy(apiKey)]

(***************************************************************************)
(* getAIClient: the key the client is built with, and whether it warns.    *)
(***************************************************************************)
getAIClient(apiKey) ==
    [apiKey |-> OrElse(apiKey, DUMMY_KEY_FOR_DEMO), warn |-> ~Truthy(apiKey)]

\* an inlineData object: { mimeType, data }, or its absence
NoInline == [present |-> FALSE, mimeType |-> Undefined, data |-> Undefined]
InlineData(mimeType, data) == [present |-> TRUE, mimeType |-> mimeType, data |-> data]

\* a request as the transport sees it; the prompt text is passed through
\* unchanged and decides nothing in the client, so it is not part of the record
Request(api, apiKey, model, thinkingOff, inline) ==
    [api |-> api, apiKey |-> apiKey, model |-> model, thinkingBudget0 |-> thinkingOff,
     inlineData |-> inline]

\* const ai = getAIClient(): console.warn when the key is missing
ClientWarns(c) ==
    warnings' = [warnings EXCEPT ![c] = @ + (IF getAIClient(API_KEY).warn THEN 1 ELSE 0)]

\* a variant of SendRequest: the client keeps one outbox for all calls
SendRequest_shared(c, api, model, thinkingOff, inline) ==
    requests' = [d \in Calls |->
                   Append(requests[d], Request(api, getAIClient(API_KEY).apiKey, model,
                                               thinkingOff, inline))]

\* ai.models.generateContent / generateContentStream: one request leaves,
\* carrying the key the client was built with
SendRequest(c, api, model, thinkingOff, inline) ==
    requests' = [requests EXCEPT ![c] =
                   Append(@, Request(api, getAIClient(API_KEY).apiKey, model, thinkingOff, inline))]

(***************************************************************************)
(* The hosted service, for the request/response calls.                     *)
(***************************************************************************)
\* the service answers generateContent with a text response
ServiceRespondsText(c) ==
    /\ fn[c] \in {"generateText", "analyzeImage"}
    /\ pc[c] = "awaitResponse"
    /\ net[c].kind = "none"
    /\ \E t \in Texts :
         net' = [net EXCEPT ![c] = [NoReply EXCEPT !.kind = "response", !.text = t]]
    /\ UNCHANGED chatVars
    /\ UNCHANGED <<API_KEY, fn, pc, modelId, imageFile, consumer, requests, result,
                   warnings, errorLog, arrived, fault, yielded, received, extraPulls,
                   fullStreamContent, messages>>

\* the transport or the service fails the pending request
ServiceFails(c) ==
    /\ pc[c] \in {"awaitResponse", "awaitOpen", "awaitChunk"}
    /\ net[c].kind = "none"
    /\ \E e \in TransportErrors :
         /\ net' = [net EXCEPT ![c] = [NoReply EXCEPT !.kind = "error", !.error = e]]
         /\ fault' = [fault EXCEPT ![c] = e]
    /\ UNCHANGED chatVars
    /\ UNCHANGED <<API_KEY, fn, pc, modelId, imageFile, consumer, requests, result,
                   warnings, errorLog, arrived, yielded, received, extraPulls,
                   fullStreamContent, messages>>

(***************************************************************************)
(* generateText                                                            *)
(***************************************************************************)
\* a variant of generateText_return: ?? in place of ||, so "" is returned as is
generateText_return_nullish(text) ==
    Fulfilled(IF text = Undefined THEN NO_RESPONSE ELSE text)

\* return response.text || "No response generated."
generateText_return(text) == Fulfilled(OrElse(text, NO_RESPONSE))

\* a variant of generateText_catch: the error is swallowed into the fallback
generateText_catch_swallow(error) ==
    [log |-> <<error>>, outcome |-> Fulfilled(NO_RESPONSE)]

\* catch (error) { console.error(...); throw error; }
generateText_catch(error) == [log |-> <<error>>, outcome |-> Rejected(error)]

\* the call, up to its await: getAIClient() and the one generateContent request
generateText(c) ==
    /\ pc[c] = "idle"
    /\ \E m \in ModelIds :
         /\ modelId' = [modelId EXCEPT ![c] = m]
         /\ ClientWarns(c)
         /\ SendRequest(c, "generateContent", m, IncludesGemini3(m), NoInline)
    /\ fn' = [fn EXCEPT ![c] = "generateText"]
    /\ pc' = [pc EXCEPT ![c] = "awaitResponse"]
    /\ UNCHANGED chatVars
    /\ UNCHANGED <<API_KEY, imageFile, consumer, net, result, errorLog, arrived,
                   fault, yielded, received, extraPulls, fullStreamContent, messages>>

\* a variant of generateText_resume: a failed request is sent once more
generateText_resume_retry(c) ==
    /\ fn[c] = "generateText"
    /\ pc[c] = "awaitResponse"
    /\ net[c].kind # "none"
    /\ IF net[c].kind = "response"
         THEN /\ result' = [result EXCEPT ![c] = generateText_return(net[c].text)]
              /\ pc' = [pc EXCEPT ![c] = "done"]
              /\ UNCHANGED <<errorLog, requests, net>>
         ELSE IF Len(requests[c]) < 2
           THEN /\ SendRequest(c, "generateContent", modelId[c], IncludesGemini3(modelId[c]), NoInline)
                /\ net' = [net EXCEPT ![c] = NoReply]
                /\ UNCHANGED <<result, errorLog, pc>>
           ELSE /\ result' = [result EXCEPT ![c] = generateText_catch(net[c].error).outcome]
                /\ errorLog' = [errorLog EXCEPT ![c] = @ \o <<net[c].error>>]
                /\ pc' = [pc EXCEPT ![c] = "done"]
                /\ UNCHANGED <<requests, net>>
    /\ UNCHANGED chatVars
    /\ UNCHANGED <<API_KEY, fn, modelId, imageFile, consumer, warnings, arrived,
                   fault, yielded, received, extraPulls, fullStreamContent, messages>>

\* the code after the await: the return, or the catch block
generateText_resume(c) ==
    /\ fn[c] = "generateText"
    /\ pc[c] = "awaitResponse"
    /\ net[c].kind # "none"
    /\ IF net[c].kind = "response"
         THEN /\ result' = [result EXCEPT ![c] = generateText_return(net[c].text)]
              /\ UNCHANGED errorLog
         ELSE LET h == generateText_catch(net[c].error) IN
              /\ result' = [result EXCEPT ![c] = h.outcome]
              /\ errorLog' = [errorLog EXCEPT ![c] = @ \o h.log]
    /\ pc' = [pc EXCEPT ![c] = "done"]
    /\ UNCHANGED chatVars
    /\ UNCHANGED <<API_KEY, fn, modelId, imageFile, consumer, requests, net, warnings,
                   arrived, fault, yielded, received, extraPulls, fullStreamContent,
                   messages>>

(***************************************************************************)
(* generateImage                                                           *)
(***************************************************************************)
\* base64 payloads an image part can carry
ImageData == {<<"Q", "Q", "=", "=">>, <<"/", "9", "j", "/">>}
TextPart == [text |-> <<"h", "i">>, inlineData |-> NoInline]
ImagePart(mimeType, data) == [text |-> Undefined, inlineData |-> InlineData(mimeType, data)]
\* the content parts the service can return
Parts ==
    {TextPart} \cup {ImagePart(IMAGE_PNG, d) : d \in ImageData}
               \cup {ImagePart(IMAGE_JPEG, <<"/", "9", "j", "/">>), ImagePart(Undefined, Undefined)}

SeqsUpTo(S, n) == UNION {[1..k -> S] : k \in 0..n}

\* a candidate: content may be missing, and content.parts may be missing
Candidate(hasContent, hasParts, parts) ==
    [hasContent |-> hasContent, hasParts |-> hasParts, parts |-> parts]
Candidates ==
    {Candidate(FALSE, FALSE, <<>>), Candidate(TRUE, FALSE, <<>>)}
      \cup {Candidate(TRUE, TRUE, ps) : ps \in SeqsUpTo(Parts, MaxParts)}
\* later candidates, which the client never looks at
OtherCandidates ==
    {Candidate(TRUE, TRUE, <<ImagePart(IMAGE_JPEG, <<"Q", "Q", "=", "=">>)>>),
     Candidate(TRUE, TRUE, <<TextPart>>)}
\* response.candidates: undefined, empty, or a list of candidates
CandidateLists ==
    {NoCandidates, [defined |-> TRUE, items |-> <<>>]}
      \cup {[defined |-> TRUE, items |-> <<cand>>] : cand \in Candidates}
      \cup {[defined |-> TRUE, items |-> <<cand, other>>] :
               cand \in Candidates, other \in OtherCandidates}

\* the service answers generateContent with an image response
ServiceRespondsImage(c) ==
    /\ fn[c] = "generateImage"
    /\ pc[c] = "awaitResponse"
    /\ net[c].kind = "none"
    /\ \E cl \in CandidateLists :
         net' = [net EXCEPT ![c] = [NoReply EXCEPT !.kind = "response", !.candidates = cl]]
    /\ UNCHANGED chatVars
    /\ UNCHANGED <<API_KEY, fn, pc, modelId, imageFile, consumer, requests, result,
                   warnings, errorLog, arrived, fault, yielded, received, extraPulls,
                   fullStreamContent, messages>>

\* response.candidates?.[0]?.content?.parts || []
PartsOf(candidates) ==
    IF candidates.defined /\ Len(candidates.items) > 0
         /\ candidates.items[1].hasContent /\ candidates.items[1].hasParts
      THEN candidates.items[1].parts
      ELSE <<>>

\* `data:${part.inlineData.mimeType};base64,${part.inlineData.data}`
DataUri(inline) ==
    DATA_PREFIX \o ToStr(inline.mimeType) \o BASE64_MARK \o ToStr(inline.data)

\* a variant of generateImage_scan: the loop does not stop at the first image part
RECURSIVE generateImage_scan_last(_)
generateImage_scan_last(parts) ==
    IF parts = <<>> THEN [found |-> FALSE, uri |-> Undefined]
    ELSE LET later == generateImage_scan_last(Tail(parts)) IN
         IF later.found THEN later
         ELSE IF Head(parts).inlineData.present
                THEN [found |-> TRUE, uri |-> DataUri(Head(parts).inlineData)]
                ELSE later

\* for (const part of parts) { if (part.inlineData) return `data:...` }
RECURSIVE generateImage_scan(_)
generateImage_scan(parts) ==
    IF parts = <<>> THEN [found |-> FALSE, uri |-> Undefined]
    ELSE IF Head(parts).inlineData.present
           THEN [found |-> TRUE, uri |-> DataUri(Head(parts).inlineData)]
           ELSE generateImage_scan(Tail(parts))

\* catch (error) { console.error(...); throw error; }
generateImage_catch(error) == [log |-> <<error>>, outcome |-> Rejected(error)]

\* a variant of generateImage_return: the throw after the loop is missing
generateImage_return_nothrow(candidates) ==
    LET r == generateImage_scan(PartsOf(candidates)) IN
    [log |-> <<>>, outcome |-> Fulfilled(r.uri)]

\* the code after the await for a response: the scan, then the throw into the catch
generateImage_return(candidates) ==
    LET r == generateImage_scan(PartsOf(candidates)) IN
    IF r.found THEN [log |-> <<>>, outcome |-> Fulfilled(r.uri)]
               ELSE generateImage_catch(NoImageError)

\* the call, up to its await
generateImage(c) ==
    /\ pc[c] = "idle"
    /\ ClientWarns(c)
    /\ SendRequest(c, "generateContent", IMAGE_MODEL, FALSE, NoInline)
    /\ fn' = [fn EXCEPT ![c] = "generateImage"]
    /\ modelId' = [modelId EXCEPT ![c] = IMAGE_MODEL]
    /\ pc' = [pc EXCEPT ![c] = "awaitResponse"]
    /\ UNCHANGED chatVars
    /\ UNCHANGED <<API_KEY, imageFile, consumer, net, result, errorLog, arrived,
                   fault, yielded, received, extraPulls, fullStreamContent, messages>>

generateImage_resume(c) ==
    /\ fn[c] = "generateImage"
    /\ pc[c] = "awaitResponse"
    /\ net[c].kind # "none"
    /\ LET h == IF net[c].kind = "response"
                  THEN generateImage_return(net[c].candidates)
                  ELSE generateImage_catch(net[c].error) IN
       /\ result' = [result EXCEPT ![c] = h.outcome]
       /\ errorLog' = [errorLog EXCEPT ![c] = @ \o h.log]
    /\ pc' = [pc EXCEPT ![c] = "done"]
    /\ UNCHANGED chatVars
    /\ UNCHANGED <<API_KEY, fn, modelId, imageFile, consumer, requests, net, warnings,
                   arrived, fault, yielded, received, extraPulls, fullStreamContent,
                   messages>>

(***************************************************************************)
(* analyzeImage                                                            *)
(***************************************************************************)
B64Alphabet == <<"A", "B", "C", "D", "E", "F", "G", "H", "I", "J", "K", "L", "M", "N", "O", "P", "Q", "R", "S", "T", "U", "V", "W", "X", "Y", "Z", "a", "b", "c", "d", "e", "f", "g", "h", "i", "j", "k", "l", "m", "n", "o", "p", "q", "r", "s", "t", "u", "v", "w", "x", "y", "z", "0", "1", "2", "3", "4", "5", "6", "7", "8", "9", "+", "/">>
B64Char(i) == B64Alphabet[i + 1]

\* standard base64 with padding, as FileReader.readAsDataURL produces it
RECURSIVE Base64(_)
Base64(bytes) ==
    IF Len(bytes) = 0 THEN <<>>
    ELSE IF Len(bytes) = 1 THEN
      <<B64Char(bytes[1] \div 4), B64Char((bytes[1] % 4) * 16), "=", "=">>
    ELSE IF Len(bytes) = 2 THEN
      <<B64Char(bytes[1] \div 4), B64Char((bytes[1] % 4) * 16 + bytes[2] \div 16),
        B64Char((bytes[2] % 16) * 4), "=">>
    ELSE
      <<B64Char(bytes[1] \div 4), B64Char((bytes[1] % 4) * 16 + bytes[2] \div 16),
        B64Char((bytes[2] % 16) * 4 + bytes[3] \div 64), B64Char(bytes[3] % 64)>>
        \o Base64(SubSeq(bytes, 4, Len(bytes)))

\* reader.result after readAsDataURL(file): a file without a type reads as
\* application/octet-stream
readAsDataURL(file) ==
    DATA_PREFIX \o (IF file.type = <<>> THEN OCTET_STREAM ELSE file.type)
                \o BASE64_MARK \o Base64(file.bytes)

\* positions of the commas of s, in order
CommaPositions(s) == {i \in 1..Len(s) : s[i] = ","}
Min(S) == CHOOSE x \in S : \A y \in S : x <= y

\* a variant of SplitComma1: result.split(',')[0], the text before the comma
SplitComma0(s) ==
    LET cs == CommaPositions(s) IN
    IF cs = {} THEN s ELSE SubSeq(s, 1, Min(cs) - 1)

\* result.split(',')[1]: the text between the first comma and the next one
\* (or the end); undefined when there is no comma
SplitComma1(s) ==
    LET cs == CommaPositions(s) IN
    IF cs = {} THEN Undefined
    ELSE LET first == Min(cs)
             rest == cs \ {first}
             stop == IF rest = {} THEN Len(s) + 1 ELSE Min(rest)
         IN SubSeq(s, first + 1, stop - 1)

FileTypes == {IMAGE_PNG, IMAGE_JPEG, <<>>}
FileBytes == {0, 137, 255}
Files == {[type |-> t, bytes |-> b] : t \in FileTypes, b \in SeqsUpTo(FileBytes, MaxFileLen)}

\* return response.text || "No analysis generated."
analyzeImage_return(text) == Fulfilled(OrElse(text, NO_ANALYSIS))

\* a variant of analyzeImage_catch: the error is logged and thrown on
analyzeImage_catch_rethrow(error) == [log |-> <<error>>, outcome |-> Rejected(error)]

\* catch (error) { console.error(...); return "Failed to analyze image."; }
analyzeImage_catch(error) == [log |-> <<error>>, outcome |-> Fulfilled(ANALYZE_FAILED)]

\* the call, up to its first await: getAIClient() and reader.readAsDataURL
analyzeImage(c) ==
    /\ pc[c] = "idle"
    /\ \E f \in Files : imageFile' = [imageFile EXCEPT ![c] = f]
    /\ ClientWarns(c)
    /\ fn' = [fn EXCEPT ![c] = "analyzeImage"]
    /\ modelId' = [modelId EXCEPT ![c] = IMAGE_MODEL]
    /\ pc' = [pc EXCEPT ![c] = "awaitRead"]
    /\ UNCHANGED chatVars
    /\ UNCHANGED <<API_KEY, consumer, requests, net, result, errorLog, arrived,
                   fault, yielded, received, extraPulls, fullStreamContent, messages>>

\* the FileReader finishes: onloadend with reader.result
FileReaderLoads(c) ==
    /\ pc[c] = "awaitRead"
    /\ net[c].kind = "none"
    /\ net' = [net EXCEPT ![c] = [NoReply EXCEPT !.kind = "load",
                                                  !.text = readAsDataURL(imageFile[c])]]
    /\ UNCHANGED chatVars
    /\ UNCHANGED <<API_KEY, fn, pc, modelId, imageFile, consumer, requests, result,
                   warnings, errorLog, arrived, fault, yielded, received, extraPulls,
                   fullStreamContent, messages>>

\* the FileReader fails: onerror rejects the promise with the event (the
\* onloadend that follows cannot settle the promise again)
FileReaderFails(c) ==
    /\ pc[c] = "awaitRead"
    /\ net[c].kind = "none"
    /\ net' = [net EXCEPT ![c] = [NoReply EXCEPT !.kind = "error", !.error = ReadErrorEvent]]
    /\ fault' = [fault EXCEPT ![c] = ReadErrorEvent]
    /\ UNCHANGED chatVars
    /\ UNCHANGED <<API_KEY, fn, pc, modelId, imageFile, consumer, requests, result,
                   warnings, errorLog, arrived, yielded, received, extraPulls,
                   fullStreamContent, messages>>

\* after the file is read: the one generateContent request with the image
\* part and the prompt; after a read error: the catch block
analyzeImage_afterRead(c) ==
    /\ fn[c] = "analyzeImage"
    /\ pc[c] = "awaitRead"
    /\ net[c].kind # "none"
    /\ IF net[c].kind = "load"
         THEN /\ SendRequest(c, "generateContent", IMAGE_MODEL, FALSE,
                             InlineData(imageFile[c].type, SplitComma1(net[c].text)))
              /\ pc' = [pc EXCEPT ![c] = "awaitResponse"]
              /\ UNCHANGED <<result, errorLog>>
         ELSE LET h == analyzeImage_catch(net[c].error) IN
              /\ result' = [result EXCEPT ![c] = h.outcome]
              /\ errorLog' = [errorLog EXCEPT ![c] = @ \o h.log]
              /\ pc' = [pc EXCEPT ![c] = "done"]
              /\ UNCHANGED requests
    /\ net' = [net EXCEPT ![c] = NoReply]
    /\ UNCHANGED chatVars
    /\ UNCHANGED <<API_KEY, fn, modelId, imageFile, consumer, warnings, arrived,
                   fault, yielded, received, extraPulls, fullStreamContent, messages>>

\* the code after the second await: the return, or the catch block
analyzeImage_resume(c) ==
    /\ fn[c] = "analyzeImage"
    /\ pc[c] = "awaitResponse"
    /\ net[c].kind # "none"
    /\ LET h == IF net[c].kind = "response"
                  THEN [log |-> <<>>, outcome |-> analyzeImage_return(net[c].text)]
                  ELSE analyzeImage_catch(net[c].error) IN
       /\ result' = [result EXCEPT ![c] = h.outcome]
       /\ errorLog' = [errorLog EXCEPT ![c] = @ \o h.log]
    /\ pc' = [pc EXCEPT ![c] = "done"]
    /\ UNCHANGED chatVars
    /\ UNCHANGED <<API_KEY, fn, modelId, imageFile, consumer, requests, net, warnings,
                   arrived, fault, yielded, received, extraPulls, fullStreamContent,
                   messages>>

(***************************************************************************)
(* streamText: an async generator.  pc[c] is the generator's position:     *)
(*   suspendedStart    created, body not yet entered                       *)
(*   awaitOpen         awaiting ai.models.generateContentStream(...)       *)
(*   awaitChunk        awaiting the next chunk of responseStream           *)
(*   suspendedYield    suspended at `yield chunk.text`                     *)
(*   suspendedSentinel suspended at the yield of the catch block           *)
(*   done              returned;  threw: an error left the generator       *)
(* A yielded fragment is with the consumer once received[c] holds it.      *)
(* result[c] is what the consumer's last next() told it: fulfilled when it *)
(* saw { done: true }, rejected when next() rejected.                      *)
(***************************************************************************)
\* the transport opens the server-streamed response
StreamOpens(c) ==
    /\ pc[c] = "awaitOpen"
    /\ net[c].kind = "none"
    /\ net' = [net EXCEPT ![c] = [NoReply EXCEPT !.kind = "opened"]]
    /\ UNCHANGED chatVars
    /\ UNCHANGED <<API_KEY, fn, pc, modelId, imageFile, consumer, requests, result,
                   warnings, errorLog, arrived, fault, yielded, received, extraPulls,
                   fullStreamContent, messages>>

\* the transport delivers one more chunk
ChunkArrives(c) ==
    /\ pc[c] = "awaitChunk"
    /\ net[c].kind = "none"
    /\ Len(arrived[c]) < MaxChunks
    /\ \E t \in Texts :
         /\ net' = [net EXCEPT ![c] = [NoReply EXCEPT !.kind = "chunk", !.text = t]]
         /\ arrived' = [arrived EXCEPT ![c] = Append(@, t)]
    /\ UNCHANGED chatVars
    /\ UNCHANGED <<API_KEY, fn, pc, modelId, imageFile, consumer, requests, result,
                   warnings, errorLog, fault, yielded, received, extraPulls,
                   fullStreamContent, messages>>

\* the transport ends the stream without error
StreamEnds(c) ==
    /\ pc[c] = "awaitChunk"
    /\ net[c].kind = "none"
    /\ net' = [net EXCEPT ![c] = [NoReply EXCEPT !.kind = "end"]]
    /\ UNCHANGED chatVars
    /\ UNCHANGED <<API_KEY, fn, pc, modelId, imageFile, consumer, requests, result,
                   warnings, errorLog, arrived, fault, yielded, received, extraPulls,
                   fullStreamContent, messages>>

\* a variant of streamText_onChunk: the yield without its guard
streamText_onChunk_unguarded(text) == <<text>>

\* if (chunk.text) { yield chunk.text; }: the fragments one chunk yields
streamText_onChunk(text) == IF Truthy(text) THEN <<text>> ELSE <<>>

\* a variant of streamText_catch: the error is logged and thrown on
streamText_catch_rethrow(error) ==
    [log |-> <<error>>, yield |-> <<>>, throw |-> error]

\* catch (error) { console.error(...); yield " [Error generating stream]"; }
\* throw is the error that leaves the generator (NoError: none does)
streamText_catch(error) ==
    [log |-> <<error>>, yield |-> <<STREAM_SENTINEL>>, throw |-> NoError]

\* the generator resumes after an await settles
streamText_resume(c) ==
    /\ fn[c] = "streamText"
    /\ pc[c] \in {"awaitOpen", "awaitChunk"}
    /\ net[c].kind # "none"
    /\ CASE net[c].kind = "opened" ->
              /\ pc' = [pc EXCEPT ![c] = "awaitChunk"]
              /\ UNCHANGED <<yielded, errorLog>>
         [] net[c].kind = "chunk" ->
              LET out == streamText_onChunk(net[c].text) IN
              /\ yielded' = [yielded EXCEPT ![c] = @ \o out]
              /\ pc' = [pc EXCEPT ![c] = IF out = <<>> THEN "awaitChunk" ELSE "suspendedYield"]
              /\ UNCHANGED errorLog
         [] net[c].kind = "end" ->
              /\ pc' = [pc EXCEPT ![c] = "done"]
              /\ UNCHANGED <<yielded, errorLog>>
         [] OTHER ->
              LET h == streamText_catch(net[c].error) IN
              /\ errorLog' = [errorLog EXCEPT ![c] = @ \o h.log]
              /\ yielded' = [yielded EXCEPT ![c] = @ \o h.yield]
              /\ pc' = [pc EXCEPT ![c] = IF h.throw # NoError THEN "threw"
                                         ELSE IF h.yield = <<>> THEN "done"
                                         ELSE "suspendedSentinel"]
    /\ net' = [net EXCEPT ![c] = NoReply]
    /\ UNCHANGED chatVars
    /\ UNCHANGED <<API_KEY, fn, modelId, imageFile, consumer, requests, result,
                   warnings, arrived, fault, received, extraPulls, fullStreamContent,
                   messages>>

\* next() on a suspended generator: the body runs on to its next await or end
streamText_next(c) ==
    CASE pc[c] = "suspendedStart" ->
           /\ ClientWarns(c)
           /\ SendRequest(c, "generateContentStream", modelId[c], FALSE, NoInline)
           /\ pc' = [pc EXCEPT ![c] = "awaitOpen"]
      [] pc[c] = "suspendedYield" ->
           /\ pc' = [pc EXCEPT ![c] = "awaitChunk"]
           /\ UNCHANGED <<warnings, requests>>
      [] pc[c] = "suspendedSentinel" ->
           /\ pc' = [pc EXCEPT ![c] = "done"]
           /\ UNCHANGED <<warnings, requests>>

\* a fragment was yielded and the consumer has not taken it yet
FragmentReady(c) ==
    /\ pc[c] \in {"suspendedYield", "suspendedSentinel"}
    /\ Len(received[c]) < Len(yielded[c])

\* the generator is suspended and waits for the consumer's next()
AwaitsPull(c) ==
    \/ pc[c] = "suspendedStart"
    \/ pc[c] \in {"suspendedYield", "suspendedSentinel"} /\ Len(received[c]) = Len(yielded[c])

\* the call itself only creates the generator: nothing runs before next()
streamText(c) ==
    /\ pc[c] = "idle"
    /\ \E m \in ModelIds : modelId' = [modelId EXCEPT ![c] = m]
    /\ fn' = [fn EXCEPT ![c] = "streamText"]
    /\ consumer' = [consumer EXCEPT ![c] = "direct"]
    /\ pc' = [pc EXCEPT ![c] = "suspendedStart"]
    /\ UNCHANGED chatVars
    /\ UNCHANGED <<API_KEY, imageFile, requests, net, result, warnings, errorLog,
                   arrived, fault, yielded, received, extraPulls, fullStreamContent,
                   messages>>

(***************************************************************************)
(* A direct consumer of the generator: it pulls when it likes.             *)
(***************************************************************************)
\* the consumer's pending next() resolves with the yielded fragment
Take(c) ==
    /\ consumer[c] = "direct"
    /\ FragmentReady(c)
    /\ received' = [received EXCEPT ![c] = Append(@, yielded[c][Len(@) + 1])]
    /\ UNCHANGED chatVars
    /\ UNCHANGED <<API_KEY, fn, pc, modelId, imageFile, consumer, requests, net,
                   result, warnings, errorLog, arrived, fault, yielded, extraPulls,
                   fullStreamContent, messages>>

\* the consumer calls next()
Pull(c) ==
    /\ consumer[c] = "direct"
    /\ AwaitsPull(c)
    /\ streamText_next(c)
    /\ UNCHANGED chatVars
    /\ UNCHANGED <<API_KEY, fn, modelId, imageFile, consumer, net, result, errorLog,
                   arrived, fault, yielded, received, extraPulls, fullStreamContent,
                   messages>>

\* the consumer's pending next() settles at the end of the generator
Finish(c) ==
    /\ consumer[c] = "direct"
    /\ pc[c] \in {"done", "threw"}
    /\ result[c].state = "pending"
    /\ result' = [result EXCEPT ![c] =
                    IF pc[c] = "done" THEN Fulfilled(Undefined) ELSE Rejected(fault[c])]
    /\ UNCHANGED chatVars
    /\ UNCHANGED <<API_KEY, fn, pc, modelId, imageFile, consumer, requests, net,
                   warnings, errorLog, arrived, fault, yielded, received, extraPulls,
                   fullStreamContent, messages>>

\* next() on a generator that has ended: { done: true } again, nothing runs
ExtraPull(c) ==
    /\ consumer[c] = "direct"
    /\ pc[c] = "done"
    /\ result[c].state = "fulfilled"
    /\ extraPulls[c] < MaxExtraPulls
    /\ extraPulls' = [extraPulls EXCEPT ![c] = @ + 1]
    /\ UNCHANGED chatVars
    /\ UNCHANGED <<API_KEY, fn, pc, modelId, imageFile, consumer, requests, net,
                   result, warnings, errorLog, arrived, fault, yielded, received,
                   fullStreamContent, messages>>

(***************************************************************************)
(* The chat's consumer: modelManager.streamInfer wraps streamText, and the *)
(* for-await loop of handleUserMessage pulls it.                           *)
(***************************************************************************)
\* modelManager.selectBestModel: every branch returns the same id
selectBestModel == DEFAULT_MODEL

\* streamInfer: for await (const text of generator) yield { token: text }
streamInfer_yield(text) == [token |-> text]

\* a chat message; isStreamEnd is FALSE where the code leaves it undefined
Msg(id, sender, type, content) ==
    [id |-> id, sender |-> sender, type |-> type, content |-> content, isStreamEnd |-> FALSE]

\* the event callback's message for a system_alert whose severity is error,
\* critical or warning; the events the chat logs carry no id, which the
\* template prints as "undefined"
AlertMessage(source) ==
    Msg(<<"msg_system_alert_undefined", 0>>, "system", "text",
        <<"AI System Alert from ", source>>)

\* the message of handleUserMessage's catch block
ErrorMessage(n) ==
    Msg(<<"error", n>>, "system", "text", <<"Error: My apologies, I encountered an issue">>)

\* catch (error): the system_alert event, which the event callback turns
\* into a message, then the error message
CatchMessages(n) == <<AlertMessage("AIChatInterface.AIResponse"), ErrorMessage(n)>>

\* the ids of a list of messages
IdsOf(list) == [i \in 1..Len(list) |-> list[i].id]

NotFromUser(m) == m.sender # "user"

\* addMessage for each message of the list, none of them a user text
\* message: setMessages(prev => [...prev, message]) and, when the sender is
\* not the user, onReceiveMessage(message)
Added(list) ==
    /\ messages' = messages \o list
    /\ appended' = appended \o IdsOf(list)
    /\ notified' = notified \o IdsOf(SelectSeq(list, NotFromUser))

\* finally { setIsTyping(false); ...; processingInputRef.current = false; }
\* and the call is over
Finally ==
    /\ isTyping' = FALSE
    /\ processingInputRef' = FALSE
    /\ hum' = "idle"
    /\ input' = NoInput

\* the number of the input handleUserMessage is processing
InputNo == Len(accepted)

\* props and selections that no handler of the model changes
chatFixed == <<maxMessageHistory, initialMessages, currentOutputModality>>

\* the provider's tasks and the chat's view of them
taskVars == <<tasks, tasksSeen, activeAgentTasks, timers>>

\* the list holds a message with the stream's id
HasStreamed(prev) == \E i \in 1..Len(prev) : prev[i].id = streamedMessageId

\* a variant of UpdateStreamed: every chunk appends a message
UpdateStreamed_append(prev, content) ==
    Append(prev, [id |-> streamedMessageId, sender |-> "ai", type |-> "text",
                  content |-> content, isStreamEnd |-> FALSE])

\* the updater of the loop body: replace the content of the message with the
\* stream's id, or append that message with isStreamEnd false
UpdateStreamed(prev, content) ==
    IF \E i \in 1..Len(prev) : prev[i].id = streamedMessageId
      THEN [i \in 1..Len(prev) |->
              IF i = Min({j \in 1..Len(prev) : prev[j].id = streamedMessageId})
                THEN [prev[i] EXCEPT !.content = content]
                ELSE prev[i]]
      ELSE Append(prev, [id |-> streamedMessageId, sender |-> "ai", type |-> "text",
                         content |-> content, isStreamEnd |-> FALSE])

\* the updater after the loop: mark the message(s) with the stream's id
EndStreamed(prev) ==
    [i \in 1..Len(prev) |->
       IF prev[i].id = streamedMessageId THEN [prev[i] EXCEPT !.isStreamEnd = TRUE]
                                         ELSE prev[i]]

\* handleUserMessage reaches its streaming branch: streamInfer(...), the
\* message id, and the first next() of the for-await loop run in the same turn
handleUserMessage_stream(c) ==
    /\ pc[c] = "idle"
    /\ fn' = [fn EXCEPT ![c] = "streamText"]
    /\ consumer' = [consumer EXCEPT ![c] = "chat"]
    /\ modelId' = [modelId EXCEPT ![c] = selectBestModel]
    /\ fullStreamContent' = <<>>
    /\ streamedMessageId' = <<"streamed", InputNo>>
    /\ hum' = "streaming"
    /\ ClientWarns(c)
    /\ SendRequest(c, "generateContentStream", selectBestModel, FALSE, NoInline)
    /\ pc' = [pc EXCEPT ![c] = "awaitOpen"]
    /\ UNCHANGED <<chatFixed, taskVars, processingInputRef, isTyping, input, pending,
                   appended, sent, notified, accepted, ignoredLog, committed,
                   effectsDue, rendered>>
    /\ UNCHANGED <<API_KEY, imageFile, net, result, errorLog, arrived, fault,
                   yielded, received, extraPulls, messages>>

\* a variant of handleUserMessage_chunk: the loop is left after the body
handleUserMessage_chunk_abort(c) ==
    /\ consumer[c] = "chat"
    /\ FragmentReady(c)
    /\ LET chunk == streamInfer_yield(yielded[c][Len(received[c]) + 1])
           content == fullStreamContent \o chunk.token IN
       /\ received' = [received EXCEPT ![c] = Append(@, chunk.token)]
       /\ fullStreamContent' = content
       /\ messages' = UpdateStreamed(messages, content)
    /\ appended' = IF HasStreamed(messages) THEN appended
                                             ELSE Append(appended, streamedMessageId)
    /\ UNCHANGED <<chatFixed, taskVars, processingInputRef, isTyping, hum, input,
                   streamedMessageId, pending, sent, notified, accepted, ignoredLog,
                   effectsDue, rendered>>
    /\ UNCHANGED <<API_KEY, fn, pc, modelId, imageFile, consumer, requests, net, result,
                   warnings, errorLog, arrived, fault, yielded, extraPulls>>
    /\ committed' = (committed /\ Shown')

\* one iteration of the loop: the body, then the loop's next()
handleUserMessage_chunk(c) ==
    /\ consumer[c] = "chat"
    /\ FragmentReady(c)
    /\ LET chunk == streamInfer_yield(yielded[c][Len(received[c]) + 1])
           content == fullStreamContent \o chunk.token IN
       /\ received' = [received EXCEPT ![c] = Append(@, chunk.token)]
       /\ fullStreamContent' = content
       /\ messages' = UpdateStreamed(messages, content)
    /\ appended' = IF HasStreamed(messages) THEN appended
                                             ELSE Append(appended, streamedMessageId)
    /\ streamText_next(c)
    /\ UNCHANGED <<chatFixed, taskVars, processingInputRef, isTyping, hum, input,
                   streamedMessageId, pending, sent, notified, accepted, ignoredLog,
                   effectsDue, rendered>>
    /\ UNCHANGED <<API_KEY, fn, modelId, imageFile, consumer, net, result, errorLog,
                   arrived, fault, yielded, extraPulls>>
    /\ committed' = (committed /\ Shown')

\* the loop ends: the message is marked as complete; a rejected next() goes
\* to the catch block; then the finally block
handleUserMessage_streamEnd(c) ==
    /\ consumer[c] = "chat"
    /\ pc[c] \in {"done", "threw"}
    /\ result[c].state = "pending"
    /\ IF pc[c] = "done"
         THEN /\ result' = [result EXCEPT ![c] = Fulfilled(fullStreamContent)]
              /\ messages' = EndStreamed(messages)
              /\ UNCHANGED <<appended, notified>>
         ELSE /\ result' = [result EXCEPT ![c] = Rejected(fault[c])]
              /\ Added(CatchMessages(InputNo))
    /\ Finally
    /\ UNCHANGED <<chatFixed, taskVars, streamedMessageId, pending, sent,
                   accepted, ignoredLog, effectsDue, rendered>>
    /\ UNCHANGED <<API_KEY, fn, pc, modelId, imageFile, consumer, requests, net,
                   warnings, errorLog, arrived, fault, yielded, received, extraPulls,
                   fullStreamContent>>
    /\ committed' = (committed /\ Shown')

(***************************************************************************)
(* Specification.  The client keeps no state between calls (getAIClient    *)
(* builds a new client each time), so a behaviour follows one call from    *)
(* its start to its end.                                                   *)
(***************************************************************************)
\* the service and the FileReader: the environment
Environment(c) ==
    \/ ServiceRespondsText(c)
    \/ ServiceRespondsImage(c)
    \/ ServiceFails(c)
    \/ FileReaderLoads(c)
    \/ FileReaderFails(c)
    \/ StreamOpens(c)
    \/ ChunkArrives(c)
    \/ StreamEnds(c)

\* the client's code
Client(c) ==
    \/ generateText(c)
    \/ generateText_resume(c)
    \/ generateImage(c)
    \/ generateImage_resume(c)
    \/ analyzeImage(c)
    \/ analyzeImage_afterRead(c)
    \/ analyzeImage_resume(c)
    \/ streamText(c)
    \/ streamText_resume(c)

\* the consumers of a stream
Consumer(c) ==
    \/ Take(c)
    \/ Pull(c)
    \/ Finish(c)
    \/ ExtraPull(c)
    \/ handleUserMessage_stream(c)
    \/ handleUserMessage_chunk(c)
    \/ handleUserMessage_streamEnd(c)

Next == \E c \in Solo : Environment(c) \/ Client(c) \/ Consumer(c)

Spec == Init /\ [][Next]_vars

\* the transport settles every request, the event loop runs every
\* continuation that is ready, and the consumer keeps pulling
FairSpec ==
    /\ Spec
    /\ \A c \in Calls :
         /\ WF_vars(Environment(c))
         /\ WF_vars(streamText_resume(c))
         /\ WF_vars(Take(c) \/ Pull(c) \/ Finish(c))
         /\ WF_vars(handleUserMessage_chunk(c) \/ handleUserMessage_streamEnd(c))

(***************************************************************************)
(* Properties.                                                             *)
(***************************************************************************)
IsPrefix(a, b) == Len(a) <= Len(b) /\ SubSeq(b, 1, Len(a)) = a

HasText(t) == t # Undefined /\ Len(t) > 0

\* the texts of the chunks that carry text, in arrival order
TextsCarried(chunks) == SelectSeq(chunks, HasText)

\* the chunks of call c that the generator has been resumed with
ChunksSeen(c) ==
    IF pc[c] = "awaitChunk" /\ net[c].kind = "chunk"
      THEN SubSeq(arrived[c], 1, Len(arrived[c]) - 1)
      ELSE arrived[c]

\* the transport has failed and the generator has been resumed with the failure
FailureSeen(c) == fault[c] # NoError /\ net[c].kind # "error"

\* C1: when the transport fails during a streamText call (while opening or
\* between chunks), the generator yields the fragments delivered so far, then
\* exactly one sentinel " [Error generating stream]", then ends; its consumer
\* is never given the error.
C1_StreamFailureYieldsSentinel ==
    \A c \in Calls : fn[c] = "streamText" =>
      /\ pc[c] # "threw"
      /\ result[c].state # "rejected"
      /\ fault[c] # NoError =>
           /\ FailureSeen(c) =>
                /\ yielded[c] = TextsCarried(arrived[c]) \o <<STREAM_SENTINEL>>
                /\ pc[c] \in {"suspendedSentinel", "done"}
           /\ ~FailureSeen(c) => yielded[c] = TextsCarried(arrived[c])
           /\ result[c].state = "fulfilled" =>
                /\ pc[c] = "done"
                /\ received[c] = TextsCarried(arrived[c]) \o <<STREAM_SENTINEL>>

\* a stream that failed after a chunk with text, drained by its consumer
C1_Witness ==
    \E c \in Calls :
      /\ fn[c] = "streamText"
      /\ fault[c] \in TransportErrors
      /\ result[c].state = "fulfilled"
      /\ received[c] = <<<<"h", "i">>, STREAM_SENTINEL>>

\* C2: on a stream that ends without error, streamText yields the text of
\* every chunk that carries (non-empty) text once and in arrival order, yields
\* nothing for a chunk without text, and ends; after the end nothing more is
\* yielded, whatever the consumer calls.
C2_StreamYieldsChunksInOrder ==
    /\ [](\A c \in Calls : fn[c] = "streamText" /\ fault[c] = NoError =>
            /\ yielded[c] = TextsCarried(ChunksSeen(c))
            /\ IsPrefix(received[c], yielded[c])
            /\ net[c].kind = "end" /\ pc[c] = "awaitChunk" => yielded[c] = TextsCarried(arrived[c])
            /\ result[c].state = "fulfilled" =>
                 /\ pc[c] = "done"
                 /\ received[c] = TextsCarried(arrived[c]))
    /\ [][\A c \in Calls : pc[c] = "done" =>
            /\ pc'[c] = "done"
            /\ yielded'[c] = yielded[c]
            /\ received'[c] = received[c]
            /\ requests'[c] = requests[c]]_vars

\* a finished stream of three chunks, the middle one without text, pulled
\* once more after its end
C2_Witness ==
    \E c \in Calls :
      /\ fn[c] = "streamText"
      /\ fault[c] = NoError
      /\ arrived[c] = <<<<"h", "i">>, <<>>, <<"!">>>>
      /\ result[c].state = "fulfilled"
      /\ received[c] = <<<<"h", "i">>, <<"!">>>>
      /\ extraPulls[c] > 0

\* C3: a successful generateText returns the service's text when that is
\* non-empty and "No response generated." when the service returned no text
\* or the empty text; it never returns the empty string.
C3_GenerateTextFallback ==
    \A c \in Calls :
      fn[c] = "generateText" /\ pc[c] = "done" /\ net[c].kind = "response" =>
        /\ result[c].state = "fulfilled"
        /\ HasText(net[c].text) => result[c].value = net[c].text
        /\ ~HasText(net[c].text) => result[c].value = NO_RESPONSE
        /\ result[c].value # <<>>
        /\ result[c].value # Undefined

\* the service answered with the empty text and the call returned the fallback
C3_Witness ==
    \E c \in Calls :
      /\ fn[c] = "generateText"
      /\ pc[c] = "done"
      /\ net[c].kind = "response"
      /\ net[c].text = <<>>
      /\ result[c] = Fulfilled(NO_RESPONSE)

\* C4: when the transport or the service fails during generateText, the call
\* rejects with that very error: it does not resolve, and the error is not
\* replaced.
C4_GenerateTextRethrows ==
    \A c \in Calls :
      fn[c] = "generateText" /\ pc[c] = "done" /\ fault[c] # NoError =>
        /\ result[c].state = "rejected"
        /\ result[c].error = fault[c]
        /\ result[c].error \in TransportErrors

\* a generateText call that was rejected with the transport's error
C4_Witness ==
    \E c \in Calls :
      /\ fn[c] = "generateText"
      /\ pc[c] = "done"
      /\ fault[c].id = "e_network"
      /\ result[c].state = "rejected"
      /\ result[c].error.id = "e_network"
      /\ errorLog[c] = <<fault[c]>>

\* no candidate of the response has a part with inline data
NoInlinePart(candidates) ==
    \/ ~candidates.defined
    \/ \A i \in 1..Len(candidates.items) :
         LET cand == candidates.items[i] IN
         \/ ~cand.hasContent
         \/ ~cand.hasParts
         \/ \A j \in 1..Len(cand.parts) : ~cand.parts[j].inlineData.present

\* C5: when the image response has no part with inline image data (no
\* candidates, no content or parts, or only other parts), generateImage
\* rejects with an error whose message is "No image data returned".
C5_NoImageDataRejects ==
    \A c \in Calls :
      fn[c] = "generateImage" /\ pc[c] = "done" /\ net[c].kind = "response"
        /\ NoInlinePart(net[c].candidates) =>
          /\ result[c].state = "rejected"
          /\ result[c].error.message = NO_IMAGE_DATA

\* a response whose only candidate holds only text parts was rejected
C5_Witness ==
    \E c \in Calls :
      /\ fn[c] = "generateImage"
      /\ pc[c] = "done"
      /\ net[c].kind = "response"
      /\ net[c].candidates = [defined |-> TRUE,
                              items |-> <<Candidate(TRUE, TRUE, <<TextPart, TextPart>>)>>]
      /\ result[c] = Rejected(NoImageError)
      /\ errorLog[c] = <<NoImageError>>

\* the places of the image parts of the first candidate
FirstCandidateImages(candidates) ==
    IF candidates.defined /\ Len(candidates.items) > 0
         /\ candidates.items[1].hasContent /\ candidates.items[1].hasParts
      THEN {j \in 1..Len(candidates.items[1].parts) :
              candidates.items[1].parts[j].inlineData.present}
      ELSE {}

\* data:<mime>;base64,<data>, a missing field printed as "undefined"
ExpectedUri(part) ==
    <<"d", "a", "t", "a", ":">>
      \o (IF part.inlineData.mimeType = Undefined THEN UNDEFINED_STR
                                                  ELSE part.inlineData.mimeType)
      \o <<";", "b", "a", "s", "e", "6", "4", ",">>
      \o (IF part.inlineData.data = Undefined THEN UNDEFINED_STR ELSE part.inlineData.data)

\* C6: when the first candidate has one or more parts with inline image
\* data, generateImage returns the data URI of the first such part in part
\* order, whatever parts stand before it or after it.
C6_FirstImagePartReturned ==
    \A c \in Calls :
      fn[c] = "generateImage" /\ pc[c] = "done" /\ net[c].kind = "response"
        /\ FirstCandidateImages(net[c].candidates) # {} =>
          LET ps == net[c].candidates.items[1].parts
              k == CHOOSE j \in FirstCandidateImages(net[c].candidates) :
                     \A i \in FirstCandidateImages(net[c].candidates) : j <= i
          IN /\ result[c] = Fulfilled(ExpectedUri(ps[k]))
             /\ errorLog[c] = <<>>

\* a text part, then a PNG part, then a JPEG part: the PNG's URI was returned
C6_Witness ==
    \E c \in Calls :
      /\ fn[c] = "generateImage"
      /\ pc[c] = "done"
      /\ net[c].kind = "response"
      /\ net[c].candidates.defined
      /\ Len(net[c].candidates.items) = 2
      /\ net[c].candidates.items[1].parts =
           <<TextPart, ImagePart(IMAGE_PNG, <<"Q", "Q", "=", "=">>),
             ImagePart(IMAGE_JPEG, <<"/", "9", "j", "/">>)>>
      /\ result[c].value =
           <<"d", "a", "t", "a", ":", "i", "m", "a", "g", "e", "/", "p", "n", "g",
             ";", "b", "a", "s", "e", "6", "4", ",", "Q", "Q", "=", "=">>

\* C7: analyzeImage never rejects; when reading the file or calling the
\* service fails it resolves with "Failed to analyze image.".
C7_AnalyzeImageNeverRejects ==
    \A c \in Calls : fn[c] = "analyzeImage" =>
      /\ result[c].state # "rejected"
      /\ pc[c] = "done" /\ fault[c] # NoError => result[c] = Fulfilled(ANALYZE_FAILED)
      /\ pc[c] = "done" => result[c].state = "fulfilled"

\* the file was read and sent, the service failed, the call resolved with the literal
C7_Witness ==
    \E c \in Calls :
      /\ fn[c] = "analyzeImage"
      /\ pc[c] = "done"
      /\ Len(requests[c]) = 1
      /\ fault[c] \in TransportErrors
      /\ result[c] = Fulfilled(ANALYZE_FAILED)

\* C8: a call of generateText, generateImage, analyzeImage or streamText
\* issues at most one request, and none after the transport, the service or
\* the file reader has failed.
C8_SingleAttempt ==
    /\ [](\A c \in Calls : Len(requests[c]) <= 1)
    /\ [][\A c \in Calls : fault[c] # NoError => requests'[c] = requests[c]]_vars

\* a call whose one request failed has ended
C8_Witness ==
    \E c \in Calls :
      /\ fn[c] \in {"generateText", "generateImage", "analyzeImage", "streamText"}
      /\ pc[c] = "done"
      /\ fault[c] \in TransportErrors
      /\ Len(requests[c]) = 1

\* call c is past the place where its code sends the request
PastRequest(c) ==
    \/ pc[c] \in {"awaitResponse", "awaitOpen", "awaitChunk", "suspendedYield",
                  "suspendedSentinel"}
    \/ pc[c] = "done" /\ fault[c] # ReadErrorEvent

\* C9: when process.env.API_KEY is missing, the client is built with the
\* placeholder key, one warning is emitted, and the call sends its request as
\* it would with a key; no call is rejected for the missing key.
C9_MissingKeyDoesNotBlock ==
    ~HasText(API_KEY) =>
      \A c \in Calls :
        /\ \A i \in 1..Len(requests[c]) : requests[c][i].apiKey = DUMMY_KEY_FOR_DEMO
        /\ warnings[c] = IF pc[c] \in {"idle", "suspendedStart"} THEN 0 ELSE 1
        /\ PastRequest(c) => Len(requests[c]) = 1
        /\ result[c].state = "rejected" =>
             /\ fault[c] \in TransportErrors \/ result[c].error = NoImageError
             /\ Len(requests[c]) = 1

\* without a key, a request with the placeholder key is in flight
C9_Witness ==
    \E c \in Calls :
      /\ API_KEY = Undefined
      /\ pc[c] = "awaitResponse"
      /\ warnings[c] = 1
      /\ requests[c] # <<>>
      /\ requests[c][1].apiKey = DUMMY_KEY_FOR_DEMO

\* the consumer has been told the end and holds the whole sequence
StreamEnded(c) ==
    /\ pc[c] = "done"
    /\ result[c].state = "fulfilled"
    /\ received[c] = TextsCarried(arrived[c])
                       \o (IF fault[c] = NoError THEN <<>> ELSE <<STREAM_SENTINEL>>)

\* C10: once a stream request is issued and the consumer keeps pulling, the
\* sequence eventually ends, after the last chunk or after the sentinel; and
\* the chat's loop never leaves the generator waiting for a next() before
\* the end.
C10_StreamRunsToEnd ==
    /\ \A c \in Calls :
         (fn[c] = "streamText" /\ requests[c] # <<>>) ~> StreamEnded(c)
    /\ [](\A c \in Calls : consumer[c] = "chat" => ~AwaitsPull(c))

\* the chat drained a stream that failed after one chunk
C10_Witness ==
    \E c \in Calls :
      /\ consumer[c] = "chat"
      /\ StreamEnded(c)
      /\ received[c] = <<<<"h", "i">>, STREAM_SENTINEL>>
      /\ fullStreamContent = <<"h", "i">> \o STREAM_SENTINEL
      /\ Len(messages) = 1
      /\ messages[1].isStreamEnd

\* the value of a base64 digit
B64Value(ch) == CHOOSE i \in 0..63 : B64Char(i) = ch

B64Digits == {B64Char(i) : i \in 0..63}

\* text that a base64 decoder accepts: groups of four digits, the last one
\* padded with one or two "="
IsBase64(t) ==
    /\ t # Undefined
    /\ Len(t) % 4 = 0
    /\ \A i \in 1..Len(t) :
         \/ t[i] \in B64Digits
         \/ /\ t[i] = "="
            /\ i >= Len(t) - 1
            /\ i = Len(t) - 1 => t[Len(t)] = "="

\* the bytes a base64 text stands for
RECURSIVE DecodeBase64(_)
DecodeBase64(t) ==
    IF Len(t) = 0 THEN <<>>
    ELSE LET a == B64Value(t[1])
             b == B64Value(t[2])
         IN IF t[3] = "=" THEN <<a * 4 + b \div 16>>
            ELSE LET c == B64Value(t[3]) IN
                 IF t[4] = "=" THEN <<a * 4 + b \div 16, (b % 16) * 16 + c \div 4>>
                 ELSE <<a * 4 + b \div 16, (b % 16) * 16 + c \div 4,
                        (c % 4) * 64 + B64Value(t[4])>>
                        \o DecodeBase64(SubSeq(t, 5, Len(t)))

\* decoding: the bytes, or undefined for text that is not base64
FromBase64(t) == IF IsBase64(t) THEN DecodeBase64(t) ELSE Undefined

\* the MIME type a data URI names: the text between "data:" and ";base64,"
UriMime(uri) ==
    LET semis == {i \in 1..Len(uri) : uri[i] = ";"} IN
    IF semis = {} \/ Len(uri) < Len(DATA_PREFIX) THEN Undefined
    ELSE SubSeq(uri, Len(DATA_PREFIX) + 1, Min(semis) - 1)

\* C12: encoding image bytes and a MIME type as a data URI
\* data:<mime>;base64,<data> and decoding it back, by stripping the prefix up
\* to the comma, yields the original bytes and MIME type: the image part that
\* analyzeImage sends carries the file's type and, base64-decoded, the file's
\* bytes; and the URI generateImage returns names the part's MIME type and
\* carries the part's data after the comma.
C12_DataUriRoundTrip ==
    \A c \in Calls :
      /\ fn[c] = "analyzeImage" /\ Len(requests[c]) > 0 =>
           LET part == requests[c][1].inlineData
               uri == readAsDataURL(imageFile[c])
           IN /\ part.present
              /\ part.mimeType = imageFile[c].type
              /\ FromBase64(part.data) = imageFile[c].bytes
              /\ FromBase64(SplitComma1(uri)) = imageFile[c].bytes
              /\ imageFile[c].type # <<>> => UriMime(uri) = imageFile[c].type
      /\ fn[c] = "generateImage" /\ result[c].state = "fulfilled" =>
           LET ps == PartsOf(net[c].candidates)
               k == Min(FirstCandidateImages(net[c].candidates))
               img == ps[k].inlineData
           IN img.mimeType # Undefined /\ img.data # Undefined =>
                /\ SplitComma1(result[c].value) = img.data
                /\ UriMime(result[c].value) = img.mimeType

\* a two-byte PNG file was read, stripped of its prefix and sent
C12_Witness ==
    \E c \in Calls :
      /\ fn[c] = "analyzeImage"
      /\ Len(requests[c]) = 1
      /\ imageFile[c] = [type |-> IMAGE_PNG, bytes |-> <<137, 255>>]
      /\ requests[c][1].inlineData.data = <<"i", "f", "8", "=">>

(***************************************************************************)
(* Two calls side by side.  Both slots run the client's code; each draws   *)
(* its inputs from a narrower choice than a single call does.              *)
(***************************************************************************)
\* chunks per stream when two calls run side by side
MaxConcurrentChunks == 1

ConcurrentTexts == {Undefined, <<"h", "i">>}
ConcurrentFile == [type |-> IMAGE_PNG, bytes |-> <<137>>]
ConcurrentCandidates ==
    {NoCandidates,
     [defined |-> TRUE,
      items |-> <<Candidate(TRUE, TRUE, <<TextPart, ImagePart(IMAGE_PNG, <<"Q", "Q", "=", "=">>)>>)>>]}

\* the inputs of the two-call specification
Narrow ==
    \A c \in Calls :
      /\ imageFile[c] \in {NoFile, ConcurrentFile}
      /\ net[c].kind \in {"response", "chunk"} => net[c].text \in ConcurrentTexts
      /\ net[c].candidates \in ConcurrentCandidates
      /\ fault[c].id # "e_quota"
      /\ Len(arrived[c]) <= MaxConcurrentChunks

\* a step of one of the calls, of its transport or of its consumer
ConcurrentCall(c) ==
    \/ Environment(c) /\ Narrow'
    \/ Client(c) /\ Narrow'
    \/ (Take(c) \/ Pull(c) \/ Finish(c)) /\ Narrow'

ConcurrentNext == \E c \in Calls : ConcurrentCall(c)

ConcurrentSpec == Init /\ [][ConcurrentNext]_vars

\* everything the model keeps for call c
SlotOf(c) ==
    <<fn[c], pc[c], modelId[c], imageFile[c], consumer[c], requests[c], net[c],
      result[c], warnings[c], errorLog[c], arrived[c], fault[c], yielded[c],
      received[c], extraPulls[c]>>

\* the outcome of a settled call, from its own arguments and the replies to
\* its own request
OutcomeOf(c) ==
    CASE fn[c] = "generateText" ->
           IF fault[c] # NoError THEN Rejected(fault[c])
           ELSE Fulfilled(IF HasText(net[c].text) THEN net[c].text ELSE NO_RESPONSE)
      [] fn[c] = "generateImage" ->
           IF fault[c] # NoError THEN Rejected(fault[c])
           ELSE IF FirstCandidateImages(net[c].candidates) = {} THEN Rejected(NoImageError)
           ELSE Fulfilled(ExpectedUri(
                  PartsOf(net[c].candidates)[Min(FirstCandidateImages(net[c].candidates))]))
      [] fn[c] = "analyzeImage" ->
           IF fault[c] # NoError THEN Fulfilled(ANALYZE_FAILED)
           ELSE Fulfilled(IF HasText(net[c].text) THEN net[c].text ELSE NO_ANALYSIS)
      [] OTHER -> Fulfilled(Undefined)

\* the request of a call, from its own arguments and the environment's key
RequestOf(c) ==
    [api |-> IF fn[c] = "streamText" THEN "generateContentStream" ELSE "generateContent",
     apiKey |-> IF HasText(API_KEY) THEN API_KEY ELSE DUMMY_KEY_FOR_DEMO,
     model |-> modelId[c],
     thinkingBudget0 |-> fn[c] = "generateText" /\ IncludesGemini3(modelId[c]),
     inlineData |-> IF fn[c] = "analyzeImage"
                      THEN InlineData(imageFile[c].type, Base64(imageFile[c].bytes))
                      ELSE NoInline]

\* C11: client calls share no state: in any interleaving of two concurrent
\* calls of the generation, image and vision clients, a step of one call
\* changes nothing that belongs to the other, and each call's request and
\* outcome are determined by its own arguments and the service's replies to
\* its own request (and the key of the environment, which no call writes).
C11_CallsShareNoState ==
    /\ [](\A c \in Calls :
            /\ requests[c] \in {<<>>, <<RequestOf(c)>>}
            /\ result[c].state # "pending" =>
                 /\ result[c] = OutcomeOf(c)
                 /\ fn[c] = "streamText" =>
                      received[c] = TextsCarried(arrived[c])
                         \o (IF fault[c] = NoError THEN <<>> ELSE <<STREAM_SENTINEL>>))
    /\ [][/\ API_KEY' = API_KEY
          /\ \E c \in Calls : \A d \in Calls \ {c} : SlotOf(d)' = SlotOf(d)]_vars

\* generateText was rejected in one slot after the other slot's stream had
\* delivered a chunk and while that stream is still open
C11_Witness ==
    /\ fn["c1"] = "generateText"
    /\ result["c1"].state = "rejected"
    /\ fn["c2"] = "streamText"
    /\ pc["c2"] = "awaitChunk"
    /\ yielded["c2"] = <<<<"h", "i">>>>
    /\ net["c2"].kind = "none"

(***************************************************************************)
(* The chat interface: handleUserMessage and the handlers around it.       *)
(* An await of a client call is one step of the model: the call settles    *)
(* (fulfilled or rejected, as that client function can) and the handler    *)
(* runs on to its next await.  An await of an async function that has no   *)
(* await of its own (the provider's mocks, processInput for anything but   *)
(* an image, createTask) continues in the same turn.                       *)
(***************************************************************************)
\* calls of handleUserMessage in a behaviour
MaxInputs == 2
\* chunks of the chat's stream
MaxChatChunks == 2

\* enableAgentDelegation, as App passes it
enableAgentDelegation == TRUE

\* content of an input: a command prefix ("" for none) and the rest
GENERATE_IMAGE == "/generate image "
GENERATE_CODE == "/generate code "
DESIGN_UI == "/design ui "
SIMULATE == "/simulate "
QUERY_KNOWLEDGE == "/query knowledge "
CREATE_TASK == "/create task "
SEND_PAYMENT == "/send payment "

\* what the user can type and submit
TextContents ==
    {<<"", "hello">>, <<GENERATE_IMAGE, "cat">>, <<GENERATE_CODE, "sort">>,
     <<DESIGN_UI, "card">>, <<SIMULATE, "load">>, <<QUERY_KNOWLEDGE, "rails">>,
     <<CREATE_TASK, "audit">>, <<SEND_PAYMENT, "bob:5:fast">>, <<SEND_PAYMENT, "bob">>}

\* the commands are typed as the first input of a behaviour; what is typed
\* after it is plain text
Typed == IF accepted = <<>> THEN TextContents ELSE {<<"", "hello">>}

\* the content handleSendImage / handleSendDocument / the recorder pass on
\* when the input field is empty
MediaContent(type) ==
    CASE type = "image" -> <<"", "Image sent for analysis.">>
      [] type = "document" -> <<"", "Analyze document: f">>
      [] OTHER -> <<"", "Audio input received">>

\* lowerCaseContent.startsWith(prefix)
StartsWith(content, prefix) == content[1] = prefix

\* URL.createObjectURL(mediaData)
BlobUrl == <<"blob:", "1">>

\* the selectable output modalities of the model: streaming text, and one
\* that goes through generateOutput
OutputModalities == {"text", "vision"}

\* maxMessageHistory as the embedding page can set it
Histories == {2, DefaultMaxMessageHistory}

\* a new pipeline makes new client calls: the slot starts afresh
FreshSlot(c) ==
    /\ fn' = [fn EXCEPT ![c] = "idle"]
    /\ pc' = [pc EXCEPT ![c] = "idle"]
    /\ modelId' = [modelId EXCEPT ![c] = DEFAULT_MODEL]
    /\ imageFile' = [imageFile EXCEPT ![c] = NoFile]
    /\ consumer' = [consumer EXCEPT ![c] = "none"]
    /\ requests' = [requests EXCEPT ![c] = <<>>]
    /\ net' = [net EXCEPT ![c] = NoReply]
    /\ result' = [result EXCEPT ![c] = Pending]
    /\ warnings' = [warnings EXCEPT ![c] = 0]
    /\ errorLog' = [errorLog EXCEPT ![c] = <<>>]
    /\ arrived' = [arrived EXCEPT ![c] = <<>>]
    /\ fault' = [fault EXCEPT ![c] = NoError]
    /\ yielded' = [yielded EXCEPT ![c] = <<>>]
    /\ received' = [received EXCEPT ![c] = <<>>]
    /\ extraPulls' = [extraPulls EXCEPT ![c] = 0]
    /\ fullStreamContent' = <<>>
    /\ UNCHANGED API_KEY

\* a variant of handleUserMessage_guard: the flag is not looked at
handleUserMessage_guard_open(flag) == FALSE

\* if (processingInputRef.current) { logEvent(...); return; }
handleUserMessage_guard(flag) == flag

\* a variant of handleUserMessage_notify: onSendMessage is not called
handleUserMessage_notify_never(log, message) == log

\* onSendMessage?.(userMessage)
handleUserMessage_notify(log, message) == Append(log, message.id)

\* handleUserMessage(content, type, mediaData), from its start to its first
\* await.  `before` is what its caller has added in the same turn, before the
\* call.  onSendMessage is the embedding page's code: it returns or throws,
\* and a throw leaves the function before its try block.
handleUserMessage(content, type, before) ==
    /\ Len(accepted) + Len(ignoredLog) < MaxInputs
    /\ IF handleUserMessage_guard(processingInputRef)
         THEN /\ ignoredLog' = Append(ignoredLog, type)
              /\ Added(before)
              /\ UNCHANGED <<processingInputRef, isTyping, hum, input, pending, sent,
                             accepted, callVars, fullStreamContent>>
         ELSE LET userMessage == Msg(<<"user", Len(accepted) + 1>>, "user", type,
                                     IF type = "text" THEN content ELSE BlobUrl) IN
              /\ processingInputRef' = TRUE
              /\ accepted' = Append(accepted, userMessage.id)
              /\ IF type = "text"
                   THEN /\ pending' = pending \cup {userMessage}
                        /\ Added(before)
                   ELSE /\ pending' = pending
                        /\ Added(before \o <<userMessage>>)
              /\ sent' = handleUserMessage_notify(sent, userMessage)
              /\ \E throws \in BOOLEAN :
                   IF throws
                     THEN UNCHANGED <<isTyping, hum, input>>
                     ELSE /\ isTyping' = TRUE
                          /\ input' = [type |-> type, content |-> content,
                                        start |-> Len(appended)]
                          /\ hum' = IF type = "image" THEN "processInput" ELSE "reason"
              /\ FreshSlot("c1")
              /\ UNCHANGED ignoredLog
    /\ UNCHANGED <<chatFixed, taskVars, streamedMessageId, effectsDue, rendered>>
    /\ committed' = (committed /\ Shown')

\* handleTextSubmit: if (inputMessage.trim() && !isTyping), with the
\* isTyping of the last render
handleTextSubmit ==
    /\ ~rendered.isTyping
    /\ \E content \in Typed : handleUserMessage(content, "text", <<>>)

\* reader.onloadend of handleSendImage / handleSendDocument; their !isTyping
\* check ran when the read was started
reader_onloadend ==
    \E type \in {"image", "document"} : handleUserMessage(MediaContent(type), type, <<>>)

\* the message mediaRecorder.onstop adds itself, for the n-th input
Placeholder(n) ==
    Msg(<<"audio", n>>, "user", "audio", <<"User audio input (processing...)">>)

\* mediaRecorder.onstop: the placeholder message, then handleUserMessage
recorder_onstop ==
    handleUserMessage(MediaContent("audio"), "audio",
                      <<Placeholder(Len(accepted) + Len(ignoredLog) + 1)>>)

\* what one run of handleUserMessage between two awaits does to the chat:
\* the messages it gives to addMessage, where it stops ("finally": it ends),
\* and whether it calls createTask
Effect(add, next, newTask) ==
    [add |-> add, next |-> next, newTask |-> newTask]

\* catch (error) { logEvent(system_alert); addMessage(error message) }
Caught(n) == Effect(CatchMessages(n), "finally", FALSE)

\* handleAgentAction('initiate_payment') after `await processPayment(...)`,
\* which settles in the turn of the call: the message for a payment that
\* succeeded (Math.random() > 0.1) or failed
PaymentMessage(success, n) ==
    Msg(<<"msg_payment_", n>>, "system", "payment_transaction",
        <<IF success THEN "Payment successful" ELSE "Payment failed">>)

\* step 3 for a command that needs no client call: aiResponseContent and
\* aiMessageType are set, and the try block ends
handleUserMessage_command(content, n, success) ==
    CASE StartsWith(content, SIMULATE) ->
           Effect(<<Msg(<<"simulation", n>>, "system", "text", <<"Simulation initialized">>)>>,
                  "finally", FALSE)
      [] StartsWith(content, QUERY_KNOWLEDGE) ->
           Effect(<<>>, "finally", FALSE)
      [] StartsWith(content, CREATE_TASK) ->
           Effect(<<>>, "finally", TRUE)
      [] OTHER ->
           \* /send payment: handleAgentAction('initiate_payment') runs up to
           \* its await of processPayment and on when handleUserMessage has
           \* ended, or ends on details it cannot parse
           IF content[2] = "bob:5:fast"
             THEN Effect(<<PaymentMessage(success, n)>>, "finally", FALSE)
             ELSE Effect(<<Msg(<<"msg_payment_error_", n>>, "system", "text",
                               <<"Invalid payment details">>)>>, "finally", FALSE)

\* after `await cognitiveArchitect.reason(...)`: the command branches and
\* the generation branch
handleUserMessage_step3(content, modality, n, success) ==
    IF \/ StartsWith(content, GENERATE_IMAGE)
       \/ StartsWith(content, GENERATE_CODE)
       \/ StartsWith(content, DESIGN_UI)
      THEN Effect(<<>>, "command", FALSE)
    ELSE IF \/ StartsWith(content, SIMULATE)
            \/ StartsWith(content, QUERY_KNOWLEDGE)
            \/ StartsWith(content, CREATE_TASK) /\ enableAgentDelegation
            \/ StartsWith(content, SEND_PAYMENT) /\ enableAgentDelegation
      THEN handleUserMessage_command(content, n, success)
    ELSE Effect(<<>>, IF modality = "text" THEN "stream" ELSE "generate", FALSE)

\* the non-streaming branch after generateOutput: addMessage(finalAiMessage)
handleUserMessage_final(n) ==
    Effect(<<Msg(<<"ai", n>>, "ai", "image", <<"data:image">>)>>, "finally", FALSE)

\* agentOrchestrator.createTask: the new task, pending
NewTask(n) == [id |-> <<"task_", n>>, status |-> "pending"]

\* the run of handleUserMessage described by eff
Apply(eff) ==
    /\ Added(eff.add)
    /\ IF eff.next = "finally"
         THEN Finally
         ELSE /\ hum' = eff.next
              /\ UNCHANGED <<isTyping, processingInputRef, input>>
    /\ IF eff.newTask
         THEN /\ tasks' = Append(tasks, NewTask(InputNo))
              /\ timers' = timers \cup {NewTask(InputNo).id}
              /\ activeAgentTasks' = Append(activeAgentTasks, NewTask(InputNo).id)
         ELSE UNCHANGED <<tasks, timers, activeAgentTasks>>
    /\ UNCHANGED <<chatFixed, streamedMessageId, pending, sent, accepted,
                   ignoredLog, effectsDue, rendered, tasksSeen, callVars,
                   fullStreamContent>>
    /\ committed' = (committed /\ Shown')

\* processInput(vision) has settled: analyzeImage never rejects
handleUserMessage_afterProcessInput ==
    /\ hum = "processInput"
    /\ Apply(Effect(<<>>, "reason", FALSE))

\* cognitiveArchitect.reason (generateText) has settled
handleUserMessage_afterReason ==
    /\ hum = "reason"
    /\ \E ok, success \in BOOLEAN :
         Apply(IF ok THEN handleUserMessage_step3(input.content, currentOutputModality,
                                                  InputNo, success)
                     ELSE Caught(InputNo))

\* generateImage / generateCode / designUIComponent has settled
handleUserMessage_afterCommand ==
    /\ hum = "command"
    /\ \E ok \in BOOLEAN :
         Apply(IF ok THEN Effect(<<>>, "finally", FALSE) ELSE Caught(InputNo))

\* generativeContentStudio.generateText has settled; adaptOutput returns its
\* argument, and generateOutput(vision) calls generateImage
handleUserMessage_afterGenerate ==
    /\ hum = "generate"
    /\ \E ok \in BOOLEAN :
         Apply(IF ok THEN Effect(<<>>, "output", FALSE) ELSE Caught(InputNo))

\* universalInterfaceCoordinator.generateOutput has settled
handleUserMessage_afterOutput ==
    /\ hum = "output"
    /\ \E ok \in BOOLEAN :
         Apply(IF ok THEN handleUserMessage_final(InputNo) ELSE Caught(InputNo))

\* addMessage of a user text message after `await modelManager.infer(...)`:
\* a failure is logged as a system_alert with severity warning, which the
\* event callback turns into a message; then the message is added
addMessage_afterSentiment ==
    \E m \in pending :
      /\ pending' = pending \ {m}
      /\ \E ok \in BOOLEAN :
           Added((IF ok THEN <<>> ELSE <<AlertMessage("AIChatInterface.Sentiment")>>)
                   \o <<m>>)
      /\ UNCHANGED <<chatFixed, taskVars, processingInputRef, isTyping, hum, input,
                     streamedMessageId, sent, accepted, ignoredLog, effectsDue,
                     rendered, callVars, fullStreamContent>>
      /\ committed' = (committed /\ Shown')

\* tasks.find(t => t.id === id) on the list a closure holds
getTask(closure, id) ==
    IF \E i \in 1..Len(closure) : closure[i].id = id
      THEN [found |-> TRUE,
            task |-> closure[Min({i \in 1..Len(closure) : closure[i].id = id})]]
      ELSE [found |-> FALSE, task |-> NewTask(0)]

\* the event callback's message for execute_task_completed
TaskMessage(task) ==
    Msg(<<"msg_agent_update_", task.id[2]>>, "system", "text",
        IF task.status = "completed"
          THEN <<"Agent task ", "completed successfully.">>
          ELSE <<"Agent task ", "failed with status ", task.status>>)

\* the timeout of createTask, 3000 ms after the call (the render that shows
\* the task and its effects have run by then): setTasks(completed), then
\* logEvent(execute_task_completed), which calls the chat's event callback in
\* the same turn; the callback asks the agentOrchestrator of its closure
createTask_timeout ==
    \E id \in timers :
      /\ getTask(tasksSeen, id).found
      /\ tasks' = [i \in 1..Len(tasks) |->
                     IF tasks[i].id = id THEN [tasks[i] EXCEPT !.status = "completed"]
                                         ELSE tasks[i]]
      /\ timers' = timers \ {id}
      /\ LET looked == getTask(tasksSeen, id)
             Other(t) == t # looked.task.id
         IN IF looked.found
              THEN /\ activeAgentTasks' = SelectSeq(activeAgentTasks, Other)
                   /\ Added(<<TaskMessage(looked.task)>>)
              ELSE UNCHANGED <<activeAgentTasks, messages, appended, notified>>
      /\ UNCHANGED <<chatFixed, tasksSeen, processingInputRef, isTyping, hum,
                     input, streamedMessageId, pending, sent, accepted, ignoredLog,
                     effectsDue, rendered, callVars, fullStreamContent>>
      /\ committed' = (committed /\ Shown')

\* prev.slice(k)
Slice(prev, k) == SubSeq(prev, k + 1, Len(prev))

\* a variant of trimEffect: the oldest messages are kept
trimEffect_head(prev, len, max) ==
    IF len > max THEN SubSeq(prev, 1, Len(prev) - (len - max)) ELSE prev

\* the trimming effect of a render that saw len messages, on the list as it
\* is when the updater runs
trimEffect(prev, len, max) ==
    IF len > max THEN Slice(prev, len - max) ELSE prev

\* the welcome message; setMessages appends it, addMessage is not used
WelcomeMessage(n) ==
    Msg(<<"msg_system_welcome_", n>>, "system", "text", <<"Welcome, user_alpha_01!">>)

\* the welcome messages appended so far
Welcomes ==
    Cardinality({i \in DOMAIN appended : appended[i][1] = "msg_system_welcome_"})

\* the welcome messages a chat of the model appends at most: a render that
\* would append one more is not followed
MaxWelcomes == 2

\* React renders the state and runs the effects of that render, in the order
\* of the source: trimming, welcome, and the event subscription, whose
\* callback holds the agentOrchestrator of this render.  The handlers made by
\* this render see these values.  A render that shows nothing new to the
\* handlers and the effects is left out (see Shown).  The welcome effect runs
\* in every render of the model: its dependencies hold messages.length,
\* userProfile and aiEventLogger, which is made anew whenever an event has
\* been logged, as the welcome effect itself does; its event has severity
\* info, for which the subscribed callback adds no message
Render ==
    /\ ~committed \/ effectsDue
    /\ Len(messages) = Len(initialMessages) => Welcomes < MaxWelcomes
    /\ LET len == Len(messages)
           trimmed == trimEffect(messages, len, maxMessageHistory)
           welcome == len = Len(initialMessages)
           hello == WelcomeMessage(Len(appended) + 1)
       IN /\ messages' = IF welcome THEN Append(trimmed, hello) ELSE trimmed
          /\ appended' = IF welcome THEN Append(appended, hello.id) ELSE appended
          /\ rendered' = [len |-> len, isTyping |-> isTyping, tasks |-> tasks]
    /\ tasksSeen' = tasks
    /\ effectsDue' = FALSE
    /\ UNCHANGED <<chatFixed, tasks, activeAgentTasks, timers,
                   processingInputRef, isTyping, hum, input, streamedMessageId, pending,
                   sent, notified, accepted, ignoredLog, callVars, fullStreamContent>>
    /\ committed' = Shown'

(***************************************************************************)
(* Specification of the chat.                                              *)
(***************************************************************************)
ChatInit ==
    /\ initialMessages = <<>>
    /\ Mounted
    /\ maxMessageHistory \in Histories
    /\ currentOutputModality \in OutputModalities
    /\ API_KEY = <<"k", "1">>
    /\ AllIdle

\* what the transport delivers on the chat's stream: chunks with text (Spec
\* follows the chunks without text, which streamText passes over)
ChatNarrow ==
    \A c \in Solo :
      /\ Len(arrived[c]) <= MaxChatChunks
      /\ \A i \in 1..Len(arrived[c]) : arrived[c][i] \in {<<"h", "i">>}
      /\ fault[c].id # "e_quota"

\* the streaming branch, entered when step 3 has chosen it
handleUserMessage_generate(c) == hum = "stream" /\ handleUserMessage_stream(c)

\* the transport of the chat's stream
ChatTransport(c) ==
    \/ StreamOpens(c) /\ ChatNarrow'
    \/ ChunkArrives(c) /\ ChatNarrow'
    \/ StreamEnds(c) /\ ChatNarrow'
    \/ ServiceFails(c) /\ ChatNarrow'

\* the user and the devices, once the effects of the mount have run
User ==
    \/ ~effectsDue /\ handleTextSubmit
    \/ ~effectsDue /\ reader_onloadend
    \/ ~effectsDue /\ recorder_onstop

\* the continuations of the chat's handlers
Handlers ==
    \/ handleUserMessage_afterProcessInput
    \/ handleUserMessage_afterReason
    \/ handleUserMessage_afterCommand
    \/ handleUserMessage_afterGenerate
    \/ handleUserMessage_afterOutput
    \/ addMessage_afterSentiment
    \/ createTask_timeout

\* the streamed reply
Streaming(c) ==
    \/ handleUserMessage_generate(c)
    \/ ChatTransport(c)
    \/ streamText_resume(c)
    \/ handleUserMessage_chunk(c)
    \/ handleUserMessage_streamEnd(c)

ChatNext ==
    \/ User
    \/ Handlers
    \/ \E c \in Solo : Streaming(c)
    \/ Render

ChatSpec == ChatInit /\ [][ChatNext]_vars

(***************************************************************************)
(* Specification of the chat under the props of the embedding page:        *)
(* a pre-loaded history and any maxMessageHistory, and the theme selector. *)
(***************************************************************************)
\* the length of the pre-loaded history of the model
MaxPreloaded == 3

\* a pre-loaded history of n messages
Preloaded(n) ==
    [i \in 1..n |-> Msg(<<"initial", i>>, IF i % 2 = 1 THEN "user" ELSE "ai",
                        "text", <<"h", "i">>)]

\* initialMessages as the embedding page can set it: the default, and a
\* history longer than the smaller maxMessageHistory
InitialHistories == {<<>>, Preloaded(MaxPreloaded)}

\* maxMessageHistory as the embedding page can set it, zero included
WelcomeHistories == {0} \cup Histories

\* toggleTheme: setTheme, updateUserProfile and a user_interaction event.
\* The provider makes a new userProfile and a new aiEventLogger, and the chat
\* renders again; the effects that depend on them run
toggleTheme ==
    /\ ~effectsDue
    /\ effectsDue' = TRUE
    /\ UNCHANGED <<chatFixed, taskVars, processingInputRef, isTyping, hum, input,
                   streamedMessageId, pending, appended, sent, notified, accepted,
                   ignoredLog, committed, rendered, callVars, fullStreamContent,
                   messages>>

WelcomeInit ==
    /\ initialMessages \in InitialHistories
    /\ Mounted
    /\ maxMessageHistory \in WelcomeHistories
    /\ currentOutputModality \in OutputModalities
    /\ API_KEY = <<"k", "1">>
    /\ AllIdle

\* the inputs a chat of this specification is given
MaxWelcomeInputs == 1

WelcomeNarrow == Len(accepted) + Len(ignoredLog) <= MaxWelcomeInputs

WelcomeNext ==
    \/ User /\ WelcomeNarrow'
    \/ Handlers
    \/ \E c \in Solo : Streaming(c)
    \/ Render
    \/ toggleTheme

WelcomeSpec == WelcomeInit /\ [][WelcomeNext]_vars

(***************************************************************************)
(* C13.                                                                    *)
(***************************************************************************)
\* a step in which handleUserMessage returns at its guard
Ignores == Len(ignoredLog') = Len(ignoredLog) + 1

\* a step in which handleUserMessage passes its guard
Accepts == Len(accepted') = Len(accepted) + 1

\* what the caller of an ignored call has added itself before the call: the
\* recorder its placeholder, the other callers nothing
AddedByCaller ==
    IF ignoredLog'[Len(ignoredLog')] = "audio"
      THEN <<Placeholder(Len(accepted) + Len(ignoredLog'))>>
      ELSE <<>>

\* C13: at most one handleUserMessage pipeline is in progress at any time: a
\* pipeline in progress holds the flag and a call is accepted only when none
\* is in progress; a call that arrives while the flag is set only logs an
\* event: handleUserMessage adds no message (the list grows by nothing but
\* what the caller added before the call), no callback is invoked, no
\* service call is started and the pipeline in progress is left as it is
C13_OnePipelineAtATime ==
    /\ [](hum # "idle" => processingInputRef)
    /\ [][/\ Accepts => ~processingInputRef /\ hum = "idle" /\ ~Ignores
          /\ Ignores =>
               /\ processingInputRef /\ processingInputRef'
               /\ messages' = messages \o AddedByCaller
               /\ IdsOf(AddedByCaller) = SubSeq(appended', Len(appended) + 1, Len(appended'))
               /\ sent' = sent
               /\ notified' = notified
               /\ pending' = pending
               /\ callVars' = callVars
               /\ <<tasks, timers, activeAgentTasks>>' = <<tasks, timers, activeAgentTasks>>
               /\ <<hum, input, isTyping, accepted, streamedMessageId,
                    fullStreamContent>>'
                    = <<hum, input, isTyping, accepted, streamedMessageId,
                        fullStreamContent>>]_vars

\* a call from the text field has been ignored while a request of the
\* pipeline in progress was under way
C13_Witness ==
    /\ processingInputRef
    /\ hum = "streaming"
    /\ \E i \in 1..Len(ignoredLog) : ignoredLog[i] = "text"
    /\ Len(requests["c1"]) > 0

(***************************************************************************)
(* C14.                                                                    *)
(***************************************************************************)
\* the last n elements of a sequence
LastOf(seq, n) == SubSeq(seq, Len(seq) - n + 1, Len(seq))

\* the smaller of two numbers
Least(a, b) == IF a <= b THEN a ELSE b

\* the list the trimming effect of a Render step leaves: the new list without
\* the welcome message, when the welcome effect of the same step has added it
Trimmed ==
    IF Len(appended') > Len(appended) THEN SubSeq(messages', 1, Len(messages') - 1)
                                      ELSE messages'

Count(seq, x) == Cardinality({i \in 1..Len(seq) : seq[i] = x})

\* C15: every message with sender 'ai' that appears in the chat, streamed or
\* not, has led to one onReceiveMessage call for that message by the time the
\* pipeline that made it has ended
C15_EveryAiMessageIsReported ==
    hum = "idle" =>
      \A i \in 1..Len(messages) :
        messages[i].sender = "ai" => Count(notified, messages[i].id) = 1

(***************************************************************************)
(* C16.                                                                    *)
(***************************************************************************)
\* C16: onSendMessage has been called exactly once for each input that
\* handleUserMessage has accepted, in their order and with the user message
\* built for that input, which is the message given to addMessage (it is in
\* the list, or has been, or waits for its sentiment inference); a call that
\* is ignored makes no onSendMessage call
C16_SentOncePerAcceptedInput ==
    /\ [](/\ sent = accepted
          /\ \A i \in 1..Len(sent) :
               /\ Count(sent, sent[i]) = 1
               /\ \/ Count(appended, sent[i]) = 1
                  \/ \E m \in pending : m.id = sent[i] /\ Count(appended, sent[i]) = 0)
    /\ [][/\ Ignores => sent' = sent
          /\ Accepts => Len(sent') = Len(sent) + 1]_vars

\* one input has been accepted and its message is in the list; a second call
\* has been ignored
C16_Witness ==
    /\ Len(sent) = 1
    /\ Len(ignoredLog) = 1
    /\ \E i \in 1..Len(messages) : messages[i].id = sent[1] /\ messages[i].sender = "user"

(***************************************************************************)
(* C17.                                                                    *)
(***************************************************************************)
\* C17: whenever the processing flag is set, a pipeline is in progress whose
\* finally block will clear it, whatever the outcome of that pipeline, an
\* exception raised while the user message is built and handed on included;
\* and isTyping is true only while a pipeline is in progress.  (Only a finally
\* block clears the flag and no pipeline starts while it is set: a flag that
\* is set with no pipeline in progress is never cleared, and no later input
\* is accepted.)
C17_FlagIsAlwaysCleared ==
    /\ processingInputRef => hum # "idle"
    /\ isTyping => hum # "idle"

(***************************************************************************)
(* C18.                                                                    *)
(***************************************************************************)
\* a step in which the processing of an accepted input ends
EndsProcessing == hum # "idle" /\ hum' = "idle"

\* the id is that of a message whose sender is the user
FromUser(id) == id[1] \in {"user", "audio"}

\* C18: when the processing of an accepted input ends, at least one message
\* with a sender other than 'user' has been appended to the chat since the
\* input was accepted
C18_EveryInputGetsAReply ==
    [][EndsProcessing =>
         \E i \in (input.start + 1)..Len(appended') : ~FromUser(appended'[i])]_vars

(***************************************************************************)
(* C19.                                                                    *)
(***************************************************************************)
\* the fragments of a sequence, joined in order
RECURSIVE Joined(_)
Joined(fragments) ==
    IF fragments = <<>> THEN <<>> ELSE Head(fragments) \o Joined(Tail(fragments))

\* the places of the list that hold a message with the stream's id
Streamed == {i \in 1..Len(messages) : messages[i].id = streamedMessageId}

\* C19: from the start of a streamed reply to the next input, the list holds
\* at most one message with the stream's id; that message is an 'ai' message
\* whose content is the concatenation, in order, of the fragments the loop has
\* received so far (after a failed stream: the texts delivered, then the
\* sentinel), with isStreamEnd false while the loop runs and true once it has
\* ended; and as long as no fragment has been received, no message with the
\* stream's id has been added.  The streamed messages of earlier replies are
\* marked as ended.
C19_StreamedMessage ==
    /\ consumer["c1"] = "chat" =>
         /\ Cardinality(Streamed) <= 1
         /\ \A i \in Streamed :
              /\ messages[i].sender = "ai"
              /\ messages[i].content = Joined(received["c1"])
              /\ messages[i].isStreamEnd = (hum # "streaming")
         /\ received["c1"] = <<>> => Count(appended, streamedMessageId) = 0
         /\ hum # "streaming" => StreamEnded("c1")
    /\ \A i \in 1..Len(messages) :
         (messages[i].id[1] = "streamed" /\ messages[i].id # streamedMessageId)
           => messages[i].isStreamEnd

\* the loop has received two fragments and runs on: the one message of the
\* stream holds both
C19_Witness ==
    /\ hum = "streaming"
    /\ Len(received["c1"]) = 2
    /\ Cardinality(Streamed) = 1
    /\ \E i \in Streamed : messages[i].content = <<"h", "i", "h", "i">>

(***************************************************************************)
(* C20.                                                                    *)
(***************************************************************************)
\* C20: in the step that delivers the execute_task_completed event of a task
\* to the chat, the task is taken off the active-task list and the message
\* appended for it is the one for a task found with status 'completed': it
\* reports that the task completed successfully
C20_CompletedTaskIsReportedCompleted ==
    [][\A id \in timers \ timers' :
         /\ \A i \in 1..Len(activeAgentTasks') : activeAgentTasks'[i] # id
         /\ messages' = Append(messages, TaskMessage([id |-> id, status |-> "completed"]))]_vars

(***************************************************************************)
(* C21.                                                                    *)
(***************************************************************************)
\* C21: the welcome message is appended exactly once per mounted chat: once
\* the effects of the mount have run there is one, and whatever happens
\* later (trimming, a new user profile after a theme change, logged events)
\* and whatever initialMessages and maxMessageHistory are, there is never a
\* second one
C21_WelcomeExactlyOnce ==
    /\ Welcomes <= 1
    /\ Len(appended) > Len(initialMessages) => Welcomes >= 1

====
